---- MODULE Spec2Model ----
(***************************************************************************)
(* Cart / order / login consistency logic of the storefront.               *)
(*                                                                         *)
(* The store (MySQL) is a set of rows per table.  Every `await database.*` *)
(* of a handler is one atomic step of the request that runs the handler;   *)
(* steps of different requests interleave freely, as the handlers run on   *)
(* one event loop over a connection pool and open no transaction.          *)
(* Amounts are exact integers: a price is in cents, a discounted price and *)
(* a subtotal are in hundredths of a cent (price * (100 - discount)).      *)
(***************************************************************************)
EXTENDS Integers, Sequences, FiniteSets, TLC

\* ---------------------------------------------------------------- bounds
NumProcs == 2
NumProducts == 2
MaxStock == 3
MaxQty == 2
MaxCartId == 3
MaxOrderId == 2
MaxRequests == 3
MaxCheckoutRequests == 4
MaxMergeRequests == 5
MaxOrderRequests == 2

NULL == "null"
Procs == 1..NumProcs
Products == 1..NumProducts
Users == {"u1", "u2"}
Sessions == {"s1", "s2"}
Quantities == 1..MaxQty

VARIABLES
    products,      \* table products: product_id -> row
    cart_items,    \* table cart_items: set of rows
    nextCartId,    \* AUTO_INCREMENT of cart_items.cart_id
    orders,        \* table orders: set of rows
    order_items,   \* table order_items: set of rows
    nextOrderId,   \* AUTO_INCREMENT of orders.order_id
    session,       \* express-session store: session id -> session data
    req,           \* the request each slot is serving, with the handler's locals
    nreq           \* number of requests received so far

vars == <<products, cart_items, nextCartId, orders, order_items, nextOrderId, session, req, nreq>>

\* ------------------------------------------------------------ store rows
ProductRow(name, price, discount, stock, active) ==
    [product_name |-> name, price |-> price, discount_percentage |-> discount,
     stock_quantity |-> stock, is_active |-> active]

CartRow(id, user, sess, pid, qty) ==
    [cart_id |-> id, user_id |-> user, session_id |-> sess, product_id |-> pid, quantity |-> qty]

NoProduct == ProductRow("", 0, 0, 0, FALSE)

NoItem == [cart_id |-> 0, quantity |-> 0]

\* the summary of an empty cart
NoSummary == [total_items |-> 0, subtotal |-> 0, discount_amount |-> 0, total_amount |-> 0]

\* req.body.quantity: given with a value, or absent
QtyGiven(v) == [present |-> TRUE, value |-> v]

QtyAbsent == [present |-> FALSE, value |-> 0]

\* a field of a request body: given with a value, or absent
Given(v) == [present |-> TRUE, value |-> v]

\* the body of an admin request on a product, every field absent
NoBody == [product_name |-> [present |-> FALSE, value |-> ""],
           price |-> QtyAbsent, stock_quantity |-> QtyAbsent,
           is_active |-> [present |-> FALSE, value |-> FALSE]]

\* A request slot that serves nothing; op and resp keep the last handler and its answer.
\* available, items and summary are parts of the answer: the count in "Only N
\* available", and the data of getCart.  subtotal is the data.subtotal of
\* updateCartItem (in cents), count the count of getCartCount, valid and issues the
\* answer of validateCart.
\* mark and before are history: the next cart_id when a login was received, and the
\* cart_items table when the login called mergeGuestCart.
ReqIdle ==
    [op |-> "none", pc |-> "idle", resp |-> "none", sid |-> NULL, userId |-> NULL,
     quantity |-> QtyAbsent, product_id |-> 0, qty |-> 0, newQuantity |-> 0, cart_id |-> 0, product |-> NoProduct,
     cartItems |-> <<>>, orderId |-> 0, idx |-> 0,
     user |-> NULL, passwordOk |-> FALSE,
     guestItems |-> <<>>, mergeSid |-> NULL, mergeError |-> FALSE,
     available |-> 0, items |-> {}, summary |-> NoSummary,
     subtotal |-> 0, count |-> 0, valid |-> TRUE, issues |-> <<>>,
     body |-> NoBody, shippingGiven |-> FALSE,
     mark |-> 0, before |-> {}]

\* ------------------------------------------------------- session helpers
getCurrentUserId(s) == IF s # NULL /\ session[s].userId # NULL THEN session[s].userId ELSE NULL

getSessionId(s) == s

\* ---------------------------------------------------------- row helpers
RECURSIVE RowsByCartId(_)
\* The rows of a result set in primary-key order, as the store returns them.
RowsByCartId(rows) ==
    IF rows = {} THEN <<>>
    ELSE LET first == CHOOSE r \in rows : \A o \in rows : r.cart_id <= o.cart_id
         IN  <<first>> \o RowsByCartId(rows \ {first})

\* WHERE clause of the cart handlers: the user's rows, else the guest session's rows.
OwnerRows(userId, sessionId) ==
    IF userId # NULL THEN {c \in cart_items : c.user_id = userId}
    ELSE IF sessionId # NULL
         THEN {c \in cart_items : c.session_id = sessionId /\ c.user_id = NULL}
         ELSE {}

\* The handler answers and the slot becomes free; the answer stays readable.
Respond(p, r) ==
    req' = [req EXCEPT ![p] = [req[p] EXCEPT !.pc = "idle", !.resp = r,
                                              !.product = NoProduct, !.idx = 0]]

\* An answer "InsufficientStock" that does not tell the count.
RespondInsufficientNoCount(p, n) ==
    req' = [req EXCEPT ![p] = [req[p] EXCEPT !.pc = "idle", !.resp = "InsufficientStock",
                                              !.product = NoProduct, !.idx = 0]]

\* res.status(400).json({ message: `Only ${product.stock_quantity} available` })
RespondInsufficient(p, n) ==
    req' = [req EXCEPT ![p] = [req[p] EXCEPT !.pc = "idle", !.resp = "InsufficientStock",
                                              !.available = n,
                                              !.product = NoProduct, !.idx = 0]]

\* A test that finds an identity in every request.
NoIdentityNever(r) == FALSE

\* neither if (userId) nor else if (sessionId): the request has no user and no session
NoIdentity(r) == r.userId = NULL /\ r.sid = NULL

\* A request is served by the first slot that is free.
FreeSlot(p) == req[p].pc = "idle" /\ \A r \in Procs : r < p => req[r].pc # "idle"

InFlight(op) == Cardinality({r \in Procs : req[r].op = op /\ req[r].pc # "idle"})

\* parseInt(quantity) || 1 on a request body that has the field or not
ParseQty(q) == IF ~q.present \/ q.value = 0 THEN 1 ELSE q.value

\* ------------------------------------------------------------- addToCart
\* data.quantity of the answer: qty of a new line, newQuantity of an updated one
ReportedQuantity(r) == IF r.resp = "added" THEN r.qty ELSE r.newQuantity

AddToCartStart(p, s, pid, q) ==
    /\ FreeSlot(p)
    /\ nextCartId + InFlight("addToCart") <= MaxCartId
    /\ LET qty == ParseQty(q)
           r   == [ReqIdle EXCEPT !.op = "addToCart", !.sid = getSessionId(s),
                                  !.userId = getCurrentUserId(s), !.quantity = q,
                                  !.product_id = pid, !.qty = qty]
       IN  IF qty < 1
           THEN req' = [req EXCEPT ![p] = [r EXCEPT !.resp = "InvalidQuantity"]]
           ELSE req' = [req EXCEPT ![p] = [r EXCEPT !.pc = "add_getProduct"]]
    /\ UNCHANGED <<products, cart_items, nextCartId, orders, order_items, nextOrderId, session>>
    /\ nreq' = nreq + 1

\* A lookup that does not look at is_active.
ProductRowMissing(pid) == pid \notin DOMAIN products

\* !product || !product.is_active
ProductMissing(pid) == pid \notin DOMAIN products \/ ~products[pid].is_active

AddGetProduct(p, ok) ==
    /\ req[p].pc = "add_getProduct"
    /\ IF ~ok THEN Respond(p, "StoreError")
       ELSE IF ProductMissing(req[p].product_id)
            THEN Respond(p, "ProductNotFound")
            ELSE req' = [req EXCEPT ![p].pc = "add_getExisting",
                                    ![p].product = products[req[p].product_id]]
    /\ UNCHANGED <<products, cart_items, nextCartId, orders, order_items, nextOrderId, session, nreq>>

\* A lookup that never finds the owner's line.
ExistingItemNone(userId, sessionId, pid) == NoItem

\* database.get returns the first row of the result
ExistingItem(userId, sessionId, pid) ==
    LET rows == {c \in OwnerRows(userId, sessionId) : c.product_id = pid}
    IN  IF rows = {} THEN NoItem
        ELSE LET c == RowsByCartId(rows)[1]
             IN  [cart_id |-> c.cart_id, quantity |-> c.quantity]

AddGetExisting(p, ok) ==
    /\ req[p].pc = "add_getExisting"
    /\ LET existingItem == ExistingItem(req[p].userId, req[p].sid, req[p].product_id)
           newQuantity  == existingItem.quantity + req[p].qty
       IN  IF ~ok THEN Respond(p, "StoreError")
           ELSE IF existingItem # NoItem
           THEN IF newQuantity > req[p].product.stock_quantity
                THEN RespondInsufficient(p, req[p].product.stock_quantity)
                ELSE req' = [req EXCEPT ![p].pc = "add_update",
                                        ![p].cart_id = existingItem.cart_id,
                                        ![p].newQuantity = newQuantity]
           ELSE IF req[p].qty > req[p].product.stock_quantity
                THEN RespondInsufficient(p, req[p].product.stock_quantity)
                ELSE req' = [req EXCEPT ![p].pc = "add_insert"]
    /\ UNCHANGED <<products, cart_items, nextCartId, orders, order_items, nextOrderId, session, nreq>>

\* A write that adds to the stored quantity instead of replacing it.
SetQuantityAdding(rows, id, qty) ==
    {IF c.cart_id = id THEN [c EXCEPT !.quantity = c.quantity + qty] ELSE c : c \in rows}

\* UPDATE cart_items SET quantity = ? WHERE cart_id = ?
SetQuantity(rows, id, qty) ==
    {IF c.cart_id = id THEN [c EXCEPT !.quantity = qty] ELSE c : c \in rows}

AddUpdate(p, ok) ==
    /\ req[p].pc = "add_update"
    /\ IF ok
       THEN /\ cart_items' = SetQuantity(cart_items, req[p].cart_id, req[p].newQuantity)
            /\ Respond(p, "updated")
       ELSE /\ UNCHANGED cart_items
            /\ Respond(p, "StoreError")
    /\ UNCHANGED <<products, nextCartId, orders, order_items, nextOrderId, session, nreq>>

AddInsert(p, ok) ==
    /\ req[p].pc = "add_insert"
    /\ IF ok
       THEN /\ cart_items' = cart_items \cup
                  {CartRow(nextCartId, req[p].userId, req[p].sid, req[p].product_id, req[p].qty)}
            /\ nextCartId' = nextCartId + 1
            /\ req' = [req EXCEPT ![p].pc = "idle", ![p].resp = "added",
                                  ![p].cart_id = nextCartId, ![p].product = NoProduct]
       ELSE /\ UNCHANGED <<cart_items, nextCartId>>
            /\ Respond(p, "StoreError")
    /\ UNCHANGED <<products, orders, order_items, nextOrderId, session, nreq>>

\* ---------------------------------------------------------------- getCart
\* One row of getCart's SELECT: the line joined with its product; subtotal,
\* discounted_price and discounted_subtotal are the ROUND(.., 2) columns, in cents.
CartItemView(c) ==
    LET pr == products[c.product_id]
        full == pr.price * 100 - pr.price * pr.discount_percentage
    IN  [cart_id |-> c.cart_id, product_id |-> c.product_id, quantity |-> c.quantity,
         product_name |-> pr.product_name, price |-> pr.price,
         discount_percentage |-> pr.discount_percentage,
         stock_quantity |-> pr.stock_quantity,
         subtotal |-> pr.price * c.quantity,
         discounted_price |-> (full + 50) \div 100,
         discounted_subtotal |-> (full * c.quantity + 50) \div 100]

\* FROM cart_items c INNER JOIN products p ... WHERE p.is_active = TRUE AND <owner>
\* (the ORDER BY added_at of the result enters no value of the answer)
CartView(userId, sessionId) ==
    {CartItemView(c) : c \in {x \in OwnerRows(userId, sessionId) :
                                 /\ x.product_id \in DOMAIN products
                                 /\ products[x.product_id].is_active}}

RECURSIVE SumField(_, _)
\* cartItems.reduce((sum, item) => sum + item[f], 0)
SumField(items, f) ==
    IF items = {} THEN 0
    ELSE LET i == CHOOSE x \in items : TRUE
         IN  i[f] + SumField(items \ {i}, f)

\* the summary of getCart; the sums are whole cents, Math.round(x * 100) / 100
\* leaves them as they are
CartSummary(items) ==
    [total_items |-> SumField(items, "quantity"),
     subtotal |-> SumField(items, "subtotal"),
     discount_amount |-> SumField(items, "subtotal") - SumField(items, "discounted_subtotal"),
     total_amount |-> SumField(items, "discounted_subtotal")]

GetCartStart(p, s) ==
    /\ FreeSlot(p)
    /\ LET r == [ReqIdle EXCEPT !.op = "getCart", !.sid = getSessionId(s),
                                !.userId = getCurrentUserId(s)]
       IN  IF NoIdentity(r)
           THEN req' = [req EXCEPT ![p] = [r EXCEPT !.resp = "CartShown"]]
           ELSE req' = [req EXCEPT ![p] = [r EXCEPT !.pc = "cart_query"]]
    /\ UNCHANGED <<products, cart_items, nextCartId, orders, order_items, nextOrderId, session>>
    /\ nreq' = nreq + 1

GetCartQuery(p, ok) ==
    /\ req[p].pc = "cart_query"
    /\ LET cartItems == CartView(req[p].userId, req[p].sid)
       IN  IF ~ok THEN Respond(p, "StoreError")
           ELSE req' = [req EXCEPT ![p].pc = "idle", ![p].resp = "CartShown",
                                   ![p].items = cartItems,
                                   ![p].summary = CartSummary(cartItems)]
    /\ UNCHANGED <<products, cart_items, nextCartId, orders, order_items, nextOrderId, session, nreq>>

\* -------------------------------------------------------- updateCartItem
\* A lookup by cart_id alone, without the owner in the WHERE clause.
OwnedItemAnyOwner(userId, sessionId, id) ==
    {c \in cart_items : c.cart_id = id}

\* SELECT ... FROM cart_items WHERE cart_id = ? AND user_id = ?
\*                           |  WHERE cart_id = ? AND session_id = ? AND user_id IS NULL
OwnedItem(userId, sessionId, id) ==
    {c \in OwnerRows(userId, sessionId) : c.cart_id = id}

\* No check of the quantity at all.
AnyQuantityValid(q) == FALSE

\* !quantity || quantity < 1
InvalidUpdateQuantity(q) == ~q.present \/ q.value = 0 \/ q.value < 1

\* q is the quantity of the request body: rejected when absent, 0 or below 1
UpdateCartItemStart(p, s, id, q) ==
    /\ FreeSlot(p)
    /\ LET r == [ReqIdle EXCEPT !.op = "updateCartItem", !.sid = getSessionId(s),
                                !.userId = getCurrentUserId(s), !.quantity = q,
                                !.cart_id = id, !.qty = q.value]
       IN  IF InvalidUpdateQuantity(q)
           THEN req' = [req EXCEPT ![p] = [r EXCEPT !.resp = "InvalidQuantity"]]
           ELSE req' = [req EXCEPT ![p] = [r EXCEPT !.pc = "upd_getItem"]]
    /\ UNCHANGED <<products, cart_items, nextCartId, orders, order_items, nextOrderId, session>>
    /\ nreq' = nreq + 1

UpdGetItem(p, ok) ==
    /\ req[p].pc = "upd_getItem"
    /\ LET cartItem == OwnedItem(req[p].userId, req[p].sid, req[p].cart_id)
       IN  IF ~ok THEN Respond(p, "StoreError")
           ELSE IF cartItem = {} THEN Respond(p, "CartItemNotFound")
           ELSE req' = [req EXCEPT ![p].pc = "upd_getProduct",
                                   ![p].product_id = (CHOOSE c \in cartItem : TRUE).product_id]
    /\ UNCHANGED <<products, cart_items, nextCartId, orders, order_items, nextOrderId, session, nreq>>

UpdGetProduct(p, ok) ==
    /\ req[p].pc = "upd_getProduct"
    /\ IF ~ok \/ req[p].product_id \notin DOMAIN products THEN Respond(p, "StoreError")
       ELSE IF req[p].qty > products[req[p].product_id].stock_quantity
            THEN RespondInsufficient(p, products[req[p].product_id].stock_quantity)
            ELSE req' = [req EXCEPT ![p].pc = "upd_update",
                                    ![p].product = products[req[p].product_id]]
    /\ UNCHANGED <<products, cart_items, nextCartId, orders, order_items, nextOrderId, session, nreq>>

\* discountedPrice * qty of the product read before the UPDATE, answered as
\* Math.round(subtotal * 100) / 100: in cents, rounded half up
UpdatedSubtotal(product, qty) ==
    ((product.price * 100 - product.price * product.discount_percentage) * qty + 50) \div 100

UpdUpdate(p, ok) ==
    /\ req[p].pc = "upd_update"
    /\ IF ok
       THEN /\ cart_items' = SetQuantity(cart_items, req[p].cart_id, req[p].qty)
            /\ req' = [req EXCEPT ![p] = [req[p] EXCEPT
                          !.pc = "idle", !.resp = "CartItemUpdated",
                          !.subtotal = UpdatedSubtotal(req[p].product, req[p].qty),
                          !.product = NoProduct, !.idx = 0]]
       ELSE /\ UNCHANGED cart_items
            /\ Respond(p, "StoreError")
    /\ UNCHANGED <<products, nextCartId, orders, order_items, nextOrderId, session, nreq>>

\* -------------------------------------------------------- removeCartItem
RemoveCartItemStart(p, s, id) ==
    /\ FreeSlot(p)
    /\ req' = [req EXCEPT ![p] = [ReqIdle EXCEPT !.op = "removeCartItem",
                                     !.pc = "rem_getItem", !.sid = getSessionId(s),
                                     !.userId = getCurrentUserId(s), !.cart_id = id]]
    /\ UNCHANGED <<products, cart_items, nextCartId, orders, order_items, nextOrderId, session>>
    /\ nreq' = nreq + 1

RemGetItem(p, ok) ==
    /\ req[p].pc = "rem_getItem"
    /\ IF ~ok THEN Respond(p, "StoreError")
       ELSE IF OwnedItem(req[p].userId, req[p].sid, req[p].cart_id) = {}
            THEN Respond(p, "CartItemNotFound")
            ELSE req' = [req EXCEPT ![p].pc = "rem_delete"]
    /\ UNCHANGED <<products, cart_items, nextCartId, orders, order_items, nextOrderId, session, nreq>>

\* DELETE FROM cart_items WHERE cart_id = ?
DeleteRow(rows, id) == {c \in rows : c.cart_id # id}

RemDelete(p, ok) ==
    /\ req[p].pc = "rem_delete"
    /\ IF ok
       THEN /\ cart_items' = DeleteRow(cart_items, req[p].cart_id)
            /\ Respond(p, "ItemRemoved")
       ELSE /\ UNCHANGED cart_items
            /\ Respond(p, "StoreError")
    /\ UNCHANGED <<products, nextCartId, orders, order_items, nextOrderId, session, nreq>>

\* ----------------------------------------------------------- createOrder
\* A query without a WHERE clause: the lines of every owner.
OrderCartRowsAnyOwner(userId, sessionId) == cart_items

\* SELECT c.*, p.price, p.product_name, p.discount_percentage, p.stock_quantity
\* FROM cart_items c JOIN products p ... WHERE c.user_id = ?  |  c.session_id = ?
OrderCartRows(userId, sessionId) ==
    LET rows == IF userId # NULL
                THEN {c \in cart_items : c.user_id = userId}
                ELSE {c \in cart_items : sessionId # NULL /\ c.session_id = sessionId}
    IN  {c \in rows : c.product_id \in DOMAIN products}

JoinProduct(c) ==
    [cart_id |-> c.cart_id, user_id |-> c.user_id, session_id |-> c.session_id,
     product_id |-> c.product_id, quantity |-> c.quantity,
     price |-> products[c.product_id].price,
     product_name |-> products[c.product_id].product_name,
     discount_percentage |-> products[c.product_id].discount_percentage,
     stock_quantity |-> products[c.product_id].stock_quantity]

CartQuery(userId, sessionId) ==
    LET rows == RowsByCartId(OrderCartRows(userId, sessionId))
    IN  [i \in 1..Len(rows) |-> JoinProduct(rows[i])]

\* finalPrice = unitPrice - unitPrice * discount / 100, in hundredths of a cent
FinalPrice(item) == item.price * 100 - item.price * item.discount_percentage

\* one entry of orderItemsData
OrderItem(item) ==
    [product_id |-> item.product_id, product_name |-> item.product_name,
     quantity |-> item.quantity, unit_price |-> FinalPrice(item),
     subtotal |-> FinalPrice(item) * item.quantity]

RECURSIVE SumSubtotals(_, _)
SumSubtotals(cartItems, n) ==
    IF n = 0 THEN 0 ELSE SumSubtotals(cartItems, n - 1) + OrderItem(cartItems[n]).subtotal

TotalAmount(cartItems) == SumSubtotals(cartItems, Len(cartItems))

\* A value in hundredths of a cent as a DECIMAL(10,2) column keeps it: in cents,
\* rounded half up.
ToDecimal2(x) == (x + 50) \div 100

\* the order_items row written for one entry of orderItemsData
StoredOrderItem(orderId, n, entry) ==
    [order_id |-> orderId, line |-> n, product_id |-> entry.product_id,
     product_name |-> entry.product_name, quantity |-> entry.quantity,
     unit_price |-> ToDecimal2(entry.unit_price), subtotal |-> ToDecimal2(entry.subtotal)]

\* Only the first cart line is checked against the stock.
FirstLineShort(cartItems) ==
    Len(cartItems) >= 1 /\ cartItems[1].quantity > cartItems[1].stock_quantity

\* the stock check of the loop: some line asks for more than the stock that was read
StockShort(cartItems) ==
    \E i \in 1..Len(cartItems) : cartItems[i].quantity > cartItems[i].stock_quantity

\* the line at which the loop returns: the first one that asks for more than the stock
FirstShort(cartItems) ==
    CHOOSE i \in 1..Len(cartItems) :
        /\ cartItems[i].quantity > cartItems[i].stock_quantity
        /\ \A j \in 1..(i - 1) : cartItems[j].quantity <= cartItems[j].stock_quantity

CreateOrderStart(p, s, shippingGiven) ==
    /\ FreeSlot(p)
    /\ nextOrderId + InFlight("createOrder") <= MaxOrderId
    /\ LET r == [ReqIdle EXCEPT !.op = "createOrder", !.sid = getSessionId(s),
                                !.userId = getCurrentUserId(s),
                                !.shippingGiven = shippingGiven]
       IN  IF ~shippingGiven
           THEN req' = [req EXCEPT ![p] = [r EXCEPT !.resp = "MissingShippingInfo"]]
           ELSE req' = [req EXCEPT ![p] = [r EXCEPT !.pc = "ord_query"]]
    /\ UNCHANGED <<products, cart_items, nextCartId, orders, order_items, nextOrderId, session>>
    /\ nreq' = nreq + 1

OrderQuery(p, ok) ==
    /\ req[p].pc = "ord_query"
    /\ LET cartItems == CartQuery(req[p].userId, req[p].sid)
       IN  IF ~ok THEN Respond(p, "StoreError")
           ELSE IF Len(cartItems) = 0 THEN Respond(p, "EmptyCart")
           ELSE IF StockShort(cartItems)
                THEN req' = [req EXCEPT ![p].pc = "idle", ![p].resp = "InsufficientStock",
                                        ![p].cartItems = cartItems,
                                        ![p].product_id =
                                            cartItems[FirstShort(cartItems)].product_id]
                ELSE req' = [req EXCEPT ![p].pc = "ord_insertOrder",
                                        ![p].cartItems = cartItems]
    /\ UNCHANGED <<products, cart_items, nextCartId, orders, order_items, nextOrderId, session, nreq>>

\* INSERT INTO orders (user_id, total_amount, order_status, ...) VALUES (?, ?, 'Pending', ...)
OrderInsertOrder(p, ok) ==
    /\ req[p].pc = "ord_insertOrder"
    /\ IF ok
       THEN /\ orders' = orders \cup
                  {[order_id |-> nextOrderId, user_id |-> req[p].userId,
                    total_amount |-> ToDecimal2(TotalAmount(req[p].cartItems)),
                    order_status |-> "Pending"]}
            /\ nextOrderId' = nextOrderId + 1
            /\ req' = [req EXCEPT ![p].pc = "ord_insertItem", ![p].orderId = nextOrderId,
                                  ![p].idx = 1]
       ELSE /\ UNCHANGED <<orders, nextOrderId>>
            /\ Respond(p, "StoreError")
    /\ UNCHANGED <<products, cart_items, nextCartId, order_items, session, nreq>>

\* A write that keeps one row per product: the new row takes the place of an
\* earlier row of the same product.
ReplaceOrderItem(lines, row) ==
    {l \in lines : l.product_id # row.product_id} \cup {row}

\* INSERT INTO order_items (...) VALUES (...): a new row, the others as they were
InsertOrderItem(lines, row) == lines \cup {row}

\* INSERT INTO order_items (...) for orderItemsData[idx]
OrderInsertItem(p, ok) ==
    /\ req[p].pc = "ord_insertItem"
    /\ IF ok
       THEN /\ order_items' = InsertOrderItem(order_items,
                   StoredOrderItem(req[p].orderId, req[p].idx,
                                   OrderItem(req[p].cartItems[req[p].idx])))
            /\ req' = [req EXCEPT ![p].pc = "ord_updateStock"]
       ELSE /\ UNCHANGED order_items
            /\ Respond(p, "StoreError")
    /\ UNCHANGED <<products, cart_items, nextCartId, orders, nextOrderId, session, nreq>>

\* UPDATE products SET stock_quantity = stock_quantity - ? WHERE product_id = ?
DecrementStock(prods, pid, qty) ==
    IF pid \in DOMAIN prods
    THEN [prods EXCEPT ![pid].stock_quantity = prods[pid].stock_quantity - qty]
    ELSE prods

OrderUpdateStock(p, ok) ==
    /\ req[p].pc = "ord_updateStock"
    /\ LET item == OrderItem(req[p].cartItems[req[p].idx])
       IN  IF ok
           THEN /\ products' = DecrementStock(products, item.product_id, item.quantity)
                /\ req' = [req EXCEPT
                              ![p].pc = IF req[p].idx < Len(req[p].cartItems)
                                        THEN "ord_insertItem" ELSE "ord_clearCart",
                              ![p].idx = req[p].idx + 1]
           ELSE /\ UNCHANGED products
                /\ Respond(p, "StoreError")
    /\ UNCHANGED <<cart_items, nextCartId, orders, order_items, nextOrderId, session, nreq>>

\* DELETE FROM cart_items WHERE user_id = ?  |  WHERE session_id = ?
ClearedCart(rows, userId, sessionId) ==
    IF userId # NULL THEN {c \in rows : c.user_id # userId}
    ELSE {c \in rows : c.session_id # sessionId}

OrderClearCart(p, ok) ==
    /\ req[p].pc = "ord_clearCart"
    /\ IF ok
       THEN /\ cart_items' = ClearedCart(cart_items, req[p].userId, req[p].sid)
            /\ Respond(p, "OrderPlaced")
       ELSE /\ UNCHANGED cart_items
            /\ Respond(p, "StoreError")
    /\ UNCHANGED <<products, nextCartId, orders, order_items, nextOrderId, session, nreq>>

\* ------------------------------------------------------------------ login
\* cred is the request body and what the users table and bcrypt make of it:
\* "missing" (a field is absent), "unknown" (no active user has that email),
\* "wrongPassword", or "ok"; cred.user is the user the email belongs to.
LoginStart(p, s, cred) ==
    /\ FreeSlot(p)
    /\ LET r == [ReqIdle EXCEPT !.op = "login", !.sid = getSessionId(s),
                                !.userId = getCurrentUserId(s), !.mark = nextCartId]
       IN  IF cred.outcome = "missing"
           THEN req' = [req EXCEPT ![p] = [r EXCEPT !.resp = "ValidationError"]]
           ELSE req' = [req EXCEPT ![p] =
                    [r EXCEPT !.pc = "login_getUser",
                              !.user = IF cred.outcome = "unknown" THEN NULL ELSE cred.user,
                              !.passwordOk = (cred.outcome = "ok")]]
    /\ UNCHANGED <<products, cart_items, nextCartId, orders, order_items, nextOrderId, session>>
    /\ nreq' = nreq + 1

\* SELECT * FROM users WHERE email = ? AND is_active = TRUE
LoginGetUser(p, ok) ==
    /\ req[p].pc = "login_getUser"
    /\ IF ~ok THEN Respond(p, "StoreError")
       ELSE IF req[p].user = NULL THEN Respond(p, "Unauthorized")
       ELSE req' = [req EXCEPT ![p].pc = "login_compare"]
    /\ UNCHANGED <<products, cart_items, nextCartId, orders, order_items, nextOrderId, session, nreq>>

\* bcrypt.compare(password, user.password_hash)
LoginCompare(p) ==
    /\ req[p].pc = "login_compare"
    /\ IF ~req[p].passwordOk THEN Respond(p, "Unauthorized")
       ELSE req' = [req EXCEPT ![p].pc = "login_touch"]
    /\ UNCHANGED <<products, cart_items, nextCartId, orders, order_items, nextOrderId, session, nreq>>

\* UPDATE users SET last_login ...; then the session is created and, when the session
\* carries a guestSessionId, mergeGuestCart(req.session.guestSessionId, user.user_id)
\* is called.
LoginTouch(p, ok) ==
    /\ req[p].pc = "login_touch"
    /\ IF ~ok
       THEN /\ Respond(p, "StoreError")
            /\ UNCHANGED session
       ELSE /\ session' = [session EXCEPT ![req[p].sid].userId = req[p].user]
            /\ IF session[req[p].sid].guestSessionId # NULL
               THEN req' = [req EXCEPT ![p].pc = "merge_query",
                                       ![p].mergeSid = session[req[p].sid].guestSessionId,
                                       ![p].before = cart_items]
               ELSE Respond(p, "LoginOk")
    /\ UNCHANGED <<products, cart_items, nextCartId, orders, order_items, nextOrderId, nreq>>

\* --------------------------------------------------------- mergeGuestCart
\* A mergeGuestCart without its catch block: the store error reaches the catch of
\* login, which answers 500.
MergeReturnRethrow(p, err) ==
    /\ session' = IF err THEN session
                  ELSE [session EXCEPT ![req[p].sid].guestSessionId = NULL]
    /\ req' = [req EXCEPT ![p].pc = "idle",
                          ![p].resp = IF err THEN "StoreError" ELSE "LoginOk",
                          ![p].mergeError = err]

\* mergeGuestCart returns (err: its catch block has logged a store error); login
\* then deletes req.session.guestSessionId and answers.
MergeReturn(p, err) ==
    /\ session' = [session EXCEPT ![req[p].sid].guestSessionId = NULL]
    /\ req' = [req EXCEPT ![p].pc = "idle", ![p].resp = "LoginOk", ![p].mergeError = err]

\* the loop goes on to the next guest item, or ends
MergeNext(p) ==
    IF req[p].idx < Len(req[p].guestItems)
    THEN /\ req' = [req EXCEPT ![p].pc = "merge_getExisting", ![p].idx = req[p].idx + 1]
         /\ UNCHANGED session
    ELSE MergeReturn(p, FALSE)

\* SELECT * FROM cart_items WHERE session_id = ?
GuestItems(sessionId) == RowsByCartId({c \in cart_items : c.session_id = sessionId})

MergeQuery(p, ok) ==
    /\ req[p].pc = "merge_query"
    /\ LET guestItems == GuestItems(req[p].mergeSid)
       IN  IF ~ok THEN MergeReturn(p, TRUE)
           ELSE IF Len(guestItems) = 0 THEN MergeReturn(p, FALSE)
           ELSE /\ req' = [req EXCEPT ![p].pc = "merge_getExisting",
                                      ![p].guestItems = guestItems, ![p].idx = 1]
                /\ UNCHANGED session
    /\ UNCHANGED <<products, cart_items, nextCartId, orders, order_items, nextOrderId, nreq>>

\* SELECT * FROM cart_items WHERE user_id = ? AND product_id = ?
UserItem(userId, pid) ==
    LET rows == {c \in cart_items : c.user_id = userId /\ c.product_id = pid}
    IN  IF rows = {} THEN NoItem
        ELSE LET c == RowsByCartId(rows)[1]
             IN  [cart_id |-> c.cart_id, quantity |-> c.quantity]

MergeGetExisting(p, ok) ==
    /\ req[p].pc = "merge_getExisting"
    /\ LET item == req[p].guestItems[req[p].idx]
           existingItem == UserItem(req[p].user, item.product_id)
       IN  IF ~ok THEN MergeReturn(p, TRUE)
           ELSE /\ IF existingItem # NoItem
                   THEN req' = [req EXCEPT ![p].pc = "merge_addQuantity",
                                           ![p].cart_id = existingItem.cart_id]
                   ELSE req' = [req EXCEPT ![p].pc = "merge_transfer"]
                /\ UNCHANGED session
    /\ UNCHANGED <<products, cart_items, nextCartId, orders, order_items, nextOrderId, nreq>>

\* UPDATE cart_items SET quantity = quantity + ? WHERE cart_id = ?
AddQuantity(rows, id, qty) ==
    {IF c.cart_id = id THEN [c EXCEPT !.quantity = c.quantity + qty] ELSE c : c \in rows}

MergeAddQuantity(p, ok) ==
    /\ req[p].pc = "merge_addQuantity"
    /\ IF ok
       THEN /\ cart_items' = AddQuantity(cart_items, req[p].cart_id,
                                         req[p].guestItems[req[p].idx].quantity)
            /\ req' = [req EXCEPT ![p].pc = "merge_delete"]
            /\ UNCHANGED session
       ELSE /\ UNCHANGED cart_items
            /\ MergeReturn(p, TRUE)
    /\ UNCHANGED <<products, nextCartId, orders, order_items, nextOrderId, nreq>>

MergeDelete(p, ok) ==
    /\ req[p].pc = "merge_delete"
    /\ IF ok
       THEN /\ cart_items' = DeleteRow(cart_items, req[p].guestItems[req[p].idx].cart_id)
            /\ MergeNext(p)
       ELSE /\ UNCHANGED cart_items
            /\ MergeReturn(p, TRUE)
    /\ UNCHANGED <<products, nextCartId, orders, order_items, nextOrderId, nreq>>

\* UPDATE cart_items SET user_id = ?, session_id = NULL WHERE cart_id = ?
TransferRow(rows, id, userId) ==
    {IF c.cart_id = id THEN [c EXCEPT !.user_id = userId, !.session_id = NULL] ELSE c :
        c \in rows}

MergeTransfer(p, ok) ==
    /\ req[p].pc = "merge_transfer"
    /\ IF ok
       THEN /\ cart_items' = TransferRow(cart_items, req[p].guestItems[req[p].idx].cart_id,
                                         req[p].user)
            /\ MergeNext(p)
       ELSE /\ UNCHANGED cart_items
            /\ MergeReturn(p, TRUE)
    /\ UNCHANGED <<products, nextCartId, orders, order_items, nextOrderId, nreq>>

\* ------------------------------------------------------------ getCartCount
GetCartCountStart(p, s) ==
    /\ FreeSlot(p)
    /\ LET r == [ReqIdle EXCEPT !.op = "getCartCount", !.sid = getSessionId(s),
                                !.userId = getCurrentUserId(s)]
       IN  IF NoIdentity(r)
           THEN req' = [req EXCEPT ![p] = [r EXCEPT !.resp = "CountShown", !.count = 0]]
           ELSE req' = [req EXCEPT ![p] = [r EXCEPT !.pc = "count_query"]]
    /\ UNCHANGED <<products, cart_items, nextCartId, orders, order_items, nextOrderId, session>>
    /\ nreq' = nreq + 1

\* SELECT COALESCE(SUM(quantity), 0) as count FROM cart_items WHERE <owner>
CartCount(userId, sessionId) == SumField(OwnerRows(userId, sessionId), "quantity")

GetCartCountQuery(p, ok) ==
    /\ req[p].pc = "count_query"
    /\ IF ~ok THEN Respond(p, "StoreError")
       ELSE req' = [req EXCEPT ![p].pc = "idle", ![p].resp = "CountShown",
                               ![p].count = CartCount(req[p].userId, req[p].sid)]
    /\ UNCHANGED <<products, cart_items, nextCartId, orders, order_items, nextOrderId, session, nreq>>

\* ------------------------------------------------------------ validateCart
\* FROM cart_items c INNER JOIN products p ON c.product_id = p.product_id WHERE <owner>
ValidateQuery(userId, sessionId) ==
    LET rows == RowsByCartId({c \in OwnerRows(userId, sessionId) :
                                 c.product_id \in DOMAIN products})
    IN  [i \in 1..Len(rows) |->
            [cart_id |-> rows[i].cart_id, product_id |-> rows[i].product_id,
             quantity |-> rows[i].quantity,
             stock_quantity |-> products[rows[i].product_id].stock_quantity,
             is_active |-> products[rows[i].product_id].is_active]]

\* An issue for every line whose quantity exceeds the stock, active or not.
IssueOfStockOnly(item) ==
    IF item.quantity > item.stock_quantity
    THEN <<[cart_id |-> item.cart_id, product_id |-> item.product_id, issue |-> "stock"]>>
    ELSE <<>>

\* one pass of the loop: if (!item.is_active) push ... else if (quantity > stock) push ...
IssueOf(item) ==
    IF ~item.is_active
    THEN <<[cart_id |-> item.cart_id, product_id |-> item.product_id, issue |-> "unavailable"]>>
    ELSE IF item.quantity > item.stock_quantity
         THEN <<[cart_id |-> item.cart_id, product_id |-> item.product_id, issue |-> "stock"]>>
         ELSE <<>>

RECURSIVE Issues(_, _)
\* issues after the first n items of the loop
Issues(cartItems, n) ==
    IF n = 0 THEN <<>> ELSE Issues(cartItems, n - 1) \o IssueOf(cartItems[n])

ValidateCartStart(p, s) ==
    /\ FreeSlot(p)
    /\ LET r == [ReqIdle EXCEPT !.op = "validateCart", !.sid = getSessionId(s),
                                !.userId = getCurrentUserId(s)]
       IN  IF NoIdentity(r)
           THEN req' = [req EXCEPT ![p] = [r EXCEPT !.resp = "CartValidated",
                                                    !.valid = TRUE, !.issues = <<>>]]
           ELSE req' = [req EXCEPT ![p] = [r EXCEPT !.pc = "validate_query"]]
    /\ UNCHANGED <<products, cart_items, nextCartId, orders, order_items, nextOrderId, session>>
    /\ nreq' = nreq + 1

ValidateCartQuery(p, ok) ==
    /\ req[p].pc = "validate_query"
    /\ LET cartItems == ValidateQuery(req[p].userId, req[p].sid)
           issues == Issues(cartItems, Len(cartItems))
       IN  IF ~ok THEN Respond(p, "StoreError")
           ELSE req' = [req EXCEPT ![p].pc = "idle", ![p].resp = "CartValidated",
                                   ![p].valid = (Len(issues) = 0),
                                   ![p].issues = issues]
    /\ UNCHANGED <<products, cart_items, nextCartId, orders, order_items, nextOrderId, session, nreq>>

\* --------------------------------------------------------------- clearCart
\* DELETE FROM cart_items WHERE user_id = ? | WHERE session_id = ? AND user_id IS NULL
ClearCartStart(p, s) ==
    /\ FreeSlot(p)
    /\ LET r == [ReqIdle EXCEPT !.op = "clearCart", !.sid = getSessionId(s),
                                !.userId = getCurrentUserId(s)]
       IN  IF NoIdentity(r)
           THEN req' = [req EXCEPT ![p] = [r EXCEPT !.resp = "NoActiveSession"]]
           ELSE req' = [req EXCEPT ![p] = [r EXCEPT !.pc = "clear_delete"]]
    /\ UNCHANGED <<products, cart_items, nextCartId, orders, order_items, nextOrderId, session>>
    /\ nreq' = nreq + 1

ClearCartDelete(p, ok) ==
    /\ req[p].pc = "clear_delete"
    /\ IF ok
       THEN /\ cart_items' = cart_items \ OwnerRows(req[p].userId, req[p].sid)
            /\ Respond(p, "CartCleared")
       ELSE /\ UNCHANGED cart_items
            /\ Respond(p, "StoreError")
    /\ UNCHANGED <<products, nextCartId, orders, order_items, nextOrderId, session, nreq>>

\* ----------------------------------------------------------- updateProduct
\* COALESCE(?, column)
Coalesce(f, old) == IF f.present THEN f.value ELSE old

\* price !== undefined && price < 0 is answered 400 after the product was found
UpdateProductStart(p, id, body) ==
    /\ FreeSlot(p)
    /\ req' = [req EXCEPT ![p] = [ReqIdle EXCEPT !.op = "updateProduct", !.pc = "prod_get",
                                                 !.product_id = id, !.body = body]]
    /\ UNCHANGED <<products, cart_items, nextCartId, orders, order_items, nextOrderId, session>>
    /\ nreq' = nreq + 1

UpdateProductGet(p, ok) ==
    /\ req[p].pc = "prod_get"
    /\ IF ~ok THEN Respond(p, "StoreError")
       ELSE IF req[p].product_id \notin DOMAIN products THEN Respond(p, "ProductNotFound")
       ELSE IF req[p].body.price.present /\ req[p].body.price.value < 0
            THEN Respond(p, "InvalidPrice")
            ELSE req' = [req EXCEPT ![p].pc = "prod_update"]
    /\ UNCHANGED <<products, cart_items, nextCartId, orders, order_items, nextOrderId, session, nreq>>

\* UPDATE products SET product_name = COALESCE(?, product_name), price = ...,
\* stock_quantity = ..., is_active = ... WHERE product_id = ?
UpdatedProduct(row, body) ==
    [row EXCEPT !.product_name = Coalesce(body.product_name, row.product_name),
                !.price = Coalesce(body.price, row.price),
                !.stock_quantity = Coalesce(body.stock_quantity, row.stock_quantity),
                !.is_active = Coalesce(body.is_active, row.is_active)]

\* The statement fails (ok = FALSE) or writes; an absent field reaches the driver
\* as undefined, and the statement then fails or keeps the column.
UpdateProductRun(p, ok) ==
    /\ req[p].pc = "prod_update"
    /\ IF ok
       THEN /\ products' = [products EXCEPT ![req[p].product_id] =
                                UpdatedProduct(products[req[p].product_id], req[p].body)]
            /\ Respond(p, "ProductUpdated")
       ELSE /\ UNCHANGED products
            /\ Respond(p, "StoreError")
    /\ UNCHANGED <<cart_items, nextCartId, orders, order_items, nextOrderId, session, nreq>>

\* ------------------------------------------------------ updateProductPrice
\* !price || price < 0 is answered 400 before any read
UpdateProductPriceStart(p, id, price) ==
    /\ FreeSlot(p)
    /\ LET r == [ReqIdle EXCEPT !.op = "updateProductPrice", !.product_id = id,
                                !.body = [NoBody EXCEPT !.price = price]]
       IN  IF ~price.present \/ price.value = 0 \/ price.value < 0
           THEN req' = [req EXCEPT ![p] = [r EXCEPT !.resp = "InvalidPrice"]]
           ELSE req' = [req EXCEPT ![p] = [r EXCEPT !.pc = "price_get"]]
    /\ UNCHANGED <<products, cart_items, nextCartId, orders, order_items, nextOrderId, session>>
    /\ nreq' = nreq + 1

UpdateProductPriceGet(p, ok) ==
    /\ req[p].pc = "price_get"
    /\ IF ~ok THEN Respond(p, "StoreError")
       ELSE IF req[p].product_id \notin DOMAIN products THEN Respond(p, "ProductNotFound")
            ELSE req' = [req EXCEPT ![p].pc = "price_update"]
    /\ UNCHANGED <<products, cart_items, nextCartId, orders, order_items, nextOrderId, session, nreq>>

\* UPDATE products SET price = ? WHERE product_id = ?
UpdateProductPriceRun(p, ok) ==
    /\ req[p].pc = "price_update"
    /\ IF ok
       THEN /\ products' = [products EXCEPT ![req[p].product_id].price =
                                                req[p].body.price.value]
            /\ Respond(p, "PriceUpdated")
       ELSE /\ UNCHANGED products
            /\ Respond(p, "StoreError")
    /\ UNCHANGED <<cart_items, nextCartId, orders, order_items, nextOrderId, session, nreq>>

\* ----------------------------------------------------------- deleteProduct
DeleteProductStart(p, id) ==
    /\ FreeSlot(p)
    /\ req' = [req EXCEPT ![p] = [ReqIdle EXCEPT !.op = "deleteProduct", !.pc = "del_get",
                                                 !.product_id = id]]
    /\ UNCHANGED <<products, cart_items, nextCartId, orders, order_items, nextOrderId, session>>
    /\ nreq' = nreq + 1

DeleteProductGet(p, ok) ==
    /\ req[p].pc = "del_get"
    /\ IF ~ok THEN Respond(p, "StoreError")
       ELSE IF req[p].product_id \notin DOMAIN products THEN Respond(p, "ProductNotFound")
            ELSE req' = [req EXCEPT ![p].pc = "del_update"]
    /\ UNCHANGED <<products, cart_items, nextCartId, orders, order_items, nextOrderId, session, nreq>>

\* soft delete: UPDATE products SET is_active = 0 WHERE product_id = ?
DeleteProductRun(p, ok) ==
    /\ req[p].pc = "del_update"
    /\ IF ok
       THEN /\ products' = [products EXCEPT ![req[p].product_id].is_active = FALSE]
            /\ Respond(p, "ProductDeleted")
       ELSE /\ UNCHANGED products
            /\ Respond(p, "StoreError")
    /\ UNCHANGED <<cart_items, nextCartId, orders, order_items, nextOrderId, session, nreq>>

\* ------------------------------------------------------------- requireAuth
\* A guard that lets every request through.
RequireAuthAlways(s) == TRUE

\* if (req.session && req.session.userId) next(); else res.status(401)
RequireAuth(s) == s # NULL /\ session[s].userId # NULL

\* ------------------------------------------------------------------ logout
\* router.post('/logout', requireAuth, authController.logout)
LogoutStart(p, s) ==
    /\ FreeSlot(p)
    /\ LET r == [ReqIdle EXCEPT !.op = "logout", !.sid = getSessionId(s),
                                !.userId = getCurrentUserId(s)]
       IN  IF ~RequireAuth(s)
           THEN req' = [req EXCEPT ![p] = [r EXCEPT !.resp = "AuthRequired"]]
           ELSE req' = [req EXCEPT ![p] = [r EXCEPT !.pc = "logout_destroy"]]
    /\ UNCHANGED <<products, cart_items, nextCartId, orders, order_items, nextOrderId, session>>
    /\ nreq' = nreq + 1

\* req.session.destroy(cb): the session is gone and the next request of the browser
\* opens a fresh one; with err the store keeps the session and the answer is 500
LogoutDestroy(p, ok) ==
    /\ req[p].pc = "logout_destroy"
    /\ IF ok
       THEN /\ session' = [session EXCEPT ![req[p].sid] =
                                            [userId |-> NULL, guestSessionId |-> NULL]]
            /\ Respond(p, "LoggedOut")
       ELSE /\ UNCHANGED session
            /\ Respond(p, "StoreError")
    /\ UNCHANGED <<products, cart_items, nextCartId, orders, order_items, nextOrderId, nreq>>

\* ---------------------------------------------------------- getCurrentUser
\* router.get('/me', requireAuth, authController.getCurrentUser)
GetCurrentUserStart(p, s) ==
    /\ FreeSlot(p)
    /\ LET r == [ReqIdle EXCEPT !.op = "getCurrentUser", !.sid = getSessionId(s),
                                !.userId = getCurrentUserId(s)]
       IN  IF ~RequireAuth(s)
           THEN req' = [req EXCEPT ![p] = [r EXCEPT !.resp = "AuthRequired"]]
           ELSE req' = [req EXCEPT ![p] = [r EXCEPT !.pc = "me_get"]]
    /\ UNCHANGED <<products, cart_items, nextCartId, orders, order_items, nextOrderId, session>>
    /\ nreq' = nreq + 1

\* SELECT ... FROM users WHERE user_id = ? AND is_active = TRUE: the user of a
\* session logged in and is still there, as no handler removes or deactivates a user
GetCurrentUserGet(p, ok) ==
    /\ req[p].pc = "me_get"
    /\ IF ok THEN Respond(p, "UserShown") ELSE Respond(p, "StoreError")
    /\ UNCHANGED <<products, cart_items, nextCartId, orders, order_items, nextOrderId, session, nreq>>

\* ---------------------------------------------------------------- states
\* The catalogue at start: product 1 is down to its last unit, the others are stocked.
InitProducts ==
    [pid \in Products |->
        ProductRow("name", 1000 * pid, 0, IF pid = 1 THEN 1 ELSE MaxStock, TRUE)]

InitSession == [s \in Sessions |-> [userId |-> NULL, guestSessionId |-> NULL]]

InitStore ==
    /\ cart_items = {}
    /\ nextCartId = 1
    /\ orders = {}
    /\ order_items = {}
    /\ nextOrderId = 1
    /\ req = [p \in Procs |-> ReqIdle]
    /\ nreq = 0

\* ------------------------------------------------ checkout specification
\* Guests fill their carts and check out; any write of createOrder may fail.
InitCheckout ==
    /\ products = InitProducts
    /\ session = InitSession
    /\ InitStore

NextCheckout ==
    \/ \E p \in Procs, s \in Sessions, pid \in Products, q \in Quantities :
          nreq < MaxCheckoutRequests /\ AddToCartStart(p, s, pid, QtyGiven(q))
    \/ \E p \in Procs : AddGetProduct(p, TRUE)
    \/ \E p \in Procs : AddGetExisting(p, TRUE)
    \/ \E p \in Procs : AddUpdate(p, TRUE)
    \/ \E p \in Procs : AddInsert(p, TRUE)
    \/ \E p \in Procs, s \in Sessions :
          nreq < MaxCheckoutRequests /\ CreateOrderStart(p, s, TRUE)
    \/ \E p \in Procs : OrderQuery(p, TRUE)
    \/ \E p \in Procs, ok \in BOOLEAN : OrderInsertOrder(p, ok)
    \/ \E p \in Procs, ok \in BOOLEAN : OrderInsertItem(p, ok)
    \/ \E p \in Procs, ok \in BOOLEAN : OrderUpdateStock(p, ok)
    \/ \E p \in Procs, ok \in BOOLEAN : OrderClearCart(p, ok)

SpecCheckout == InitCheckout /\ [][NextCheckout]_vars

\* ----------------------------------------------------- cart specification
\* The deployed program: guests and users work on their carts and log in.  Nothing
\* under src/ ever sets session.guestSessionId, so it stays unset.
Init ==
    /\ products = InitProducts
    /\ session = InitSession
    /\ InitStore

Credentials ==
    {[user |-> u, outcome |-> o] : u \in Users, o \in {"ok", "wrongPassword"}}
    \cup {[user |-> NULL, outcome |-> o] : o \in {"missing", "unknown"}}

Next ==
    \/ \E p \in Procs, s \in Sessions, pid \in Products, q \in Quantities :
          nreq < MaxRequests /\ AddToCartStart(p, s, pid, QtyGiven(q))
    \/ \E p \in Procs : AddGetProduct(p, TRUE)
    \/ \E p \in Procs : AddGetExisting(p, TRUE)
    \/ \E p \in Procs : AddUpdate(p, TRUE)
    \/ \E p \in Procs : AddInsert(p, TRUE)
    \/ \E p \in Procs, s \in Sessions, id \in 1..MaxCartId, q \in 0..MaxQty :
          nreq < MaxRequests /\ UpdateCartItemStart(p, s, id, QtyGiven(q))
    \/ \E p \in Procs : UpdGetItem(p, TRUE)
    \/ \E p \in Procs : UpdGetProduct(p, TRUE)
    \/ \E p \in Procs : UpdUpdate(p, TRUE)
    \/ \E p \in Procs, s \in Sessions, id \in 1..MaxCartId :
          nreq < MaxRequests /\ RemoveCartItemStart(p, s, id)
    \/ \E p \in Procs : RemGetItem(p, TRUE)
    \/ \E p \in Procs : RemDelete(p, TRUE)
    \/ \E p \in Procs, s \in Sessions, cred \in Credentials :
          nreq < MaxRequests /\ LoginStart(p, s, cred)
    \/ \E p \in Procs : LoginGetUser(p, TRUE)
    \/ \E p \in Procs : LoginCompare(p)
    \/ \E p \in Procs, ok \in BOOLEAN : LoginTouch(p, ok)

Spec == Init /\ [][Next]_vars

\* ------------------------------------------------ addToCart specification
\* Guests add one unit at a time; every request is valid.
NextAdd ==
    \/ \E p \in Procs, s \in Sessions, pid \in Products :
          nreq < MaxRequests /\ AddToCartStart(p, s, pid, QtyGiven(1))
    \/ \E p \in Procs : AddGetProduct(p, TRUE)
    \/ \E p \in Procs : AddGetExisting(p, TRUE)
    \/ \E p \in Procs : AddUpdate(p, TRUE)
    \/ \E p \in Procs : AddInsert(p, TRUE)

SpecAdd == Init /\ [][NextAdd]_vars

\* ---------------------------------------------------- merge specification
\* login with mergeGuestCart.  No handler under src/ writes session.guestSessionId;
\* here the session store may hold any session id in it, so that the merge runs.
\* Requests are served one after the other, and any store call of the merge may fail.
AllIdle == \A p \in Procs : req[p].pc = "idle"

InitMerge ==
    /\ products = InitProducts
    /\ session \in {[s \in Sessions |-> [userId |-> NULL, guestSessionId |-> g[s]]] :
                       g \in [Sessions -> Sessions \cup {NULL}]}
    /\ InitStore

NextMerge ==
    \/ \E p \in Procs, s \in Sessions, pid \in Products, q \in Quantities :
          AllIdle /\ nreq < MaxMergeRequests /\ AddToCartStart(p, s, pid, QtyGiven(q))
    \/ \E p \in Procs : AddGetProduct(p, TRUE)
    \/ \E p \in Procs : AddGetExisting(p, TRUE)
    \/ \E p \in Procs : AddUpdate(p, TRUE)
    \/ \E p \in Procs : AddInsert(p, TRUE)
    \/ \E p \in Procs, s \in Sessions, cred \in Credentials :
          AllIdle /\ nreq < MaxMergeRequests /\ LoginStart(p, s, cred)
    \/ \E p \in Procs : LoginGetUser(p, TRUE)
    \/ \E p \in Procs : LoginCompare(p)
    \/ \E p \in Procs, ok \in BOOLEAN : LoginTouch(p, ok)
    \/ \E p \in Procs, ok \in BOOLEAN : MergeQuery(p, ok)
    \/ \E p \in Procs, ok \in BOOLEAN : MergeGetExisting(p, ok)
    \/ \E p \in Procs, ok \in BOOLEAN : MergeAddQuantity(p, ok)
    \/ \E p \in Procs, ok \in BOOLEAN : MergeDelete(p, ok)
    \/ \E p \in Procs, ok \in BOOLEAN : MergeTransfer(p, ok)

SpecMerge == InitMerge /\ [][NextMerge]_vars

\* ------------------------------------------- sequential cart specification
\* The cart handlers and login, one request after the other, with every kind of
\* request body: a quantity absent, negative, 0 or positive, a product id that
\* exists or not, a product that is active or not.
MaxCartRequests == 4

ProductIds == 1..(NumProducts + 1)

QtyInputs == {QtyAbsent} \cup {QtyGiven(v) : v \in (0 - 1)..MaxQty}

InitCart ==
    /\ \E a \in [Products -> BOOLEAN] :
          products = [pid \in Products |-> [InitProducts[pid] EXCEPT !.is_active = a[pid]]]
    /\ session = InitSession
    /\ InitStore

NextCart ==
    \/ \E p \in Procs, s \in Sessions, pid \in ProductIds, q \in QtyInputs :
          AllIdle /\ nreq < MaxCartRequests /\ AddToCartStart(p, s, pid, q)
    \/ \E p \in Procs : AddGetProduct(p, TRUE)
    \/ \E p \in Procs : AddGetExisting(p, TRUE)
    \/ \E p \in Procs : AddUpdate(p, TRUE)
    \/ \E p \in Procs : AddInsert(p, TRUE)
    \/ \E p \in Procs, s \in Sessions, id \in 1..MaxCartId, q \in QtyInputs :
          AllIdle /\ nreq < MaxCartRequests /\ UpdateCartItemStart(p, s, id, q)
    \/ \E p \in Procs : UpdGetItem(p, TRUE)
    \/ \E p \in Procs : UpdGetProduct(p, TRUE)
    \/ \E p \in Procs : UpdUpdate(p, TRUE)
    \/ \E p \in Procs, s \in Sessions, id \in 1..MaxCartId :
          AllIdle /\ nreq < MaxCartRequests /\ RemoveCartItemStart(p, s, id)
    \/ \E p \in Procs : RemGetItem(p, TRUE)
    \/ \E p \in Procs : RemDelete(p, TRUE)
    \/ \E p \in Procs, s \in Sessions :
          AllIdle /\ nreq < MaxCartRequests /\ GetCartStart(p, s)
    \/ \E p \in Procs : GetCartQuery(p, TRUE)
    \/ \E p \in Procs, s \in Sessions, cred \in Credentials :
          AllIdle /\ nreq < MaxCartRequests /\ LoginStart(p, s, cred)
    \/ \E p \in Procs : LoginGetUser(p, TRUE)
    \/ \E p \in Procs : LoginCompare(p)
    \/ \E p \in Procs : LoginTouch(p, TRUE)

SpecCart == InitCart /\ [][NextCart]_vars

\* ---------------------------------------------------- order specification
\* createOrder on its own, one request after the other, on any catalogue and cart
\* the store can hold: a product may have been discounted, sold out or deactivated
\* since its line was put into the cart.  Session s1 is a guest or logged in as u1
\* and holds up to one line per product; guest s2 holds one unit of product 1.
\* Any write of createOrder may fail.
Discounts == {0, 25}

InitOrder ==
    /\ \E d \in [Products -> Discounts], st \in [Products -> 0..MaxStock],
          a \in [Products -> BOOLEAN] :
          products = [pid \in Products |-> ProductRow("name", 101 * pid, d[pid], st[pid], a[pid])]
    /\ \E u \in {NULL, "u1"}, q \in [Products -> 0..MaxQty] :
          /\ session = [InitSession EXCEPT !["s1"].userId = u]
          /\ cart_items = {CartRow(pid, u, "s1", pid, q[pid]) : pid \in {x \in Products : q[x] > 0}}
                             \cup {CartRow(NumProducts + 1, NULL, "s2", 1, 1)}
    /\ nextCartId = NumProducts + 2
    /\ orders = {}
    /\ order_items = {}
    /\ nextOrderId = 1
    /\ req = [p \in Procs |-> ReqIdle]
    /\ nreq = 0

NextOrder ==
    \/ \E p \in Procs, s \in Sessions, shippingGiven \in BOOLEAN :
          AllIdle /\ nreq < MaxOrderRequests /\ CreateOrderStart(p, s, shippingGiven)
    \/ \E p \in Procs : OrderQuery(p, TRUE)
    \/ \E p \in Procs, ok \in BOOLEAN : OrderInsertOrder(p, ok)
    \/ \E p \in Procs, ok \in BOOLEAN : OrderInsertItem(p, ok)
    \/ \E p \in Procs, ok \in BOOLEAN : OrderUpdateStock(p, ok)
    \/ \E p \in Procs, ok \in BOOLEAN : OrderClearCart(p, ok)

SpecOrder == InitOrder /\ [][NextOrder]_vars

\* ----------------------------------------------------- view specification
\* The handlers that show or change one cart, one request after the other, on any
\* catalogue and cart of the order specification; a request may come without a
\* session (s = NULL: no identity).
MaxViewRequests == 1

SessionsOrNone == Sessions \cup {NULL}

NextView ==
    \/ \E p \in Procs, s \in Sessions, id \in 1..MaxCartId, q \in QtyInputs :
          AllIdle /\ nreq < MaxViewRequests /\ UpdateCartItemStart(p, s, id, q)
    \/ \E p \in Procs : UpdGetItem(p, TRUE)
    \/ \E p \in Procs : UpdGetProduct(p, TRUE)
    \/ \E p \in Procs : UpdUpdate(p, TRUE)
    \/ \E p \in Procs, s \in SessionsOrNone :
          AllIdle /\ nreq < MaxViewRequests /\ GetCartStart(p, s)
    \/ \E p \in Procs : GetCartQuery(p, TRUE)
    \/ \E p \in Procs, s \in SessionsOrNone :
          AllIdle /\ nreq < MaxViewRequests /\ GetCartCountStart(p, s)
    \/ \E p \in Procs : GetCartCountQuery(p, TRUE)
    \/ \E p \in Procs, s \in SessionsOrNone :
          AllIdle /\ nreq < MaxViewRequests /\ ValidateCartStart(p, s)
    \/ \E p \in Procs : ValidateCartQuery(p, TRUE)

SpecView == InitOrder /\ [][NextView]_vars

\* --------------------------------------------------- ledger specification
\* Orders are placed, and between and after them the catalogue is edited by the
\* admin handlers and the carts are changed, one request after the other.  Guest s1
\* starts with one unit of every product in the cart; products carry a discount
\* that leaves a fraction of a cent.
MaxLedgerRequests == 4

NewPrice == 555

InitLedger ==
    /\ products = [pid \in Products |-> ProductRow("name", 101 * pid, 25, MaxStock, TRUE)]
    /\ session = InitSession
    /\ cart_items = {CartRow(pid, NULL, "s1", pid, 1) : pid \in Products}
    /\ nextCartId = NumProducts + 1
    /\ orders = {}
    /\ order_items = {}
    /\ nextOrderId = 1
    /\ req = [p \in Procs |-> ReqIdle]
    /\ nreq = 0

\* the bodies of updateProduct: nothing given, a new name and price, a negative
\* price, a product taken off sale with no stock
UpdateBodies ==
    {NoBody,
     [NoBody EXCEPT !.product_name = Given("renamed"), !.price = Given(NewPrice)],
     [NoBody EXCEPT !.price = Given(0 - 1)],
     [NoBody EXCEPT !.stock_quantity = Given(0), !.is_active = Given(FALSE)]}

NextLedger ==
    \/ \E p \in Procs, s \in Sessions :
          AllIdle /\ nreq < MaxLedgerRequests /\ CreateOrderStart(p, s, TRUE)
    \/ \E p \in Procs : OrderQuery(p, TRUE)
    \/ \E p \in Procs : OrderInsertOrder(p, TRUE)
    \/ \E p \in Procs : OrderInsertItem(p, TRUE)
    \/ \E p \in Procs : OrderUpdateStock(p, TRUE)
    \/ \E p \in Procs : OrderClearCart(p, TRUE)
    \/ \E p \in Procs, id \in ProductIds, body \in UpdateBodies :
          AllIdle /\ nreq < MaxLedgerRequests /\ UpdateProductStart(p, id, body)
    \/ \E p \in Procs : UpdateProductGet(p, TRUE)
    \/ \E p \in Procs, ok \in BOOLEAN : UpdateProductRun(p, ok)
    \/ \E p \in Procs, id \in ProductIds, price \in {QtyAbsent, Given(0), Given(NewPrice)} :
          AllIdle /\ nreq < MaxLedgerRequests /\ UpdateProductPriceStart(p, id, price)
    \/ \E p \in Procs : UpdateProductPriceGet(p, TRUE)
    \/ \E p \in Procs : UpdateProductPriceRun(p, TRUE)
    \/ \E p \in Procs, id \in ProductIds :
          AllIdle /\ nreq < MaxLedgerRequests /\ DeleteProductStart(p, id)
    \/ \E p \in Procs : DeleteProductGet(p, TRUE)
    \/ \E p \in Procs : DeleteProductRun(p, TRUE)
    \/ \E p \in Procs, s \in Sessions, pid \in Products :
          AllIdle /\ nreq < MaxLedgerRequests /\ AddToCartStart(p, s, pid, QtyGiven(1))
    \/ \E p \in Procs : AddGetProduct(p, TRUE)
    \/ \E p \in Procs : AddGetExisting(p, TRUE)
    \/ \E p \in Procs : AddUpdate(p, TRUE)
    \/ \E p \in Procs : AddInsert(p, TRUE)
    \/ \E p \in Procs, s \in Sessions, id \in 1..MaxCartId :
          AllIdle /\ nreq < MaxLedgerRequests /\ UpdateCartItemStart(p, s, id, QtyGiven(2))
    \/ \E p \in Procs : UpdGetItem(p, TRUE)
    \/ \E p \in Procs : UpdGetProduct(p, TRUE)
    \/ \E p \in Procs : UpdUpdate(p, TRUE)
    \/ \E p \in Procs, s \in Sessions, id \in 1..MaxCartId :
          AllIdle /\ nreq < MaxLedgerRequests /\ RemoveCartItemStart(p, s, id)
    \/ \E p \in Procs : RemGetItem(p, TRUE)
    \/ \E p \in Procs : RemDelete(p, TRUE)
    \/ \E p \in Procs, s \in Sessions :
          AllIdle /\ nreq < MaxLedgerRequests /\ ClearCartStart(p, s)
    \/ \E p \in Procs : ClearCartDelete(p, TRUE)

SpecLedger == InitLedger /\ [][NextLedger]_vars

\* ------------------------------------------------ isolation specification
\* Every cart handler and createOrder, with logins, interleaved on two sessions:
\* s1 starts as a guest with an empty cart, s2 is logged in as u2 and holds a
\* line.  A handler resolves its owner when it starts; its store calls run later.
MaxIsolationRequests == 3

InitIsolation ==
    /\ products = [pid \in Products |-> ProductRow("name", 1000 * pid, 0, MaxStock, TRUE)]
    /\ session = [InitSession EXCEPT !["s2"].userId = "u2"]
    /\ cart_items = {CartRow(1, "u2", "s2", 1, 1)}
    /\ nextCartId = 2
    /\ orders = {}
    /\ order_items = {}
    /\ nextOrderId = 1
    /\ req = [p \in Procs |-> ReqIdle]
    /\ nreq = 0

NextIsolation ==
    \/ \E p \in Procs, s \in Sessions :
          nreq < MaxIsolationRequests /\ GetCartStart(p, s)
    \/ \E p \in Procs : GetCartQuery(p, TRUE)
    \/ \E p \in Procs, s \in Sessions :
          nreq < MaxIsolationRequests /\ AddToCartStart(p, s, 1, QtyGiven(1))
    \/ \E p \in Procs : AddGetProduct(p, TRUE)
    \/ \E p \in Procs : AddGetExisting(p, TRUE)
    \/ \E p \in Procs : AddUpdate(p, TRUE)
    \/ \E p \in Procs : AddInsert(p, TRUE)
    \/ \E p \in Procs, s \in Sessions, id \in 1..MaxCartId :
          nreq < MaxIsolationRequests /\ UpdateCartItemStart(p, s, id, QtyGiven(2))
    \/ \E p \in Procs : UpdGetItem(p, TRUE)
    \/ \E p \in Procs : UpdGetProduct(p, TRUE)
    \/ \E p \in Procs : UpdUpdate(p, TRUE)
    \/ \E p \in Procs, s \in Sessions, id \in 1..MaxCartId :
          nreq < MaxIsolationRequests /\ RemoveCartItemStart(p, s, id)
    \/ \E p \in Procs : RemGetItem(p, TRUE)
    \/ \E p \in Procs : RemDelete(p, TRUE)
    \/ \E p \in Procs, s \in Sessions :
          nreq < MaxIsolationRequests /\ ClearCartStart(p, s)
    \/ \E p \in Procs : ClearCartDelete(p, TRUE)
    \/ \E p \in Procs, s \in Sessions :
          nreq < MaxIsolationRequests /\ GetCartCountStart(p, s)
    \/ \E p \in Procs : GetCartCountQuery(p, TRUE)
    \/ \E p \in Procs, s \in Sessions :
          nreq < MaxIsolationRequests /\ ValidateCartStart(p, s)
    \/ \E p \in Procs : ValidateCartQuery(p, TRUE)
    \/ \E p \in Procs, s \in Sessions :
          nreq < MaxIsolationRequests /\ CreateOrderStart(p, s, TRUE)
    \/ \E p \in Procs : OrderQuery(p, TRUE)
    \/ \E p \in Procs : OrderInsertOrder(p, TRUE)
    \/ \E p \in Procs : OrderInsertItem(p, TRUE)
    \/ \E p \in Procs : OrderUpdateStock(p, TRUE)
    \/ \E p \in Procs : OrderClearCart(p, TRUE)
    \/ \E p \in Procs :
          nreq < MaxIsolationRequests /\ LoginStart(p, "s1", [user |-> "u1", outcome |-> "ok"])
    \/ \E p \in Procs : LoginGetUser(p, TRUE)
    \/ \E p \in Procs : LoginCompare(p)
    \/ \E p \in Procs : LoginTouch(p, TRUE)

SpecIsolation == InitIsolation /\ [][NextIsolation]_vars

\* ------------------------------------------------------ auth specification
\* Logins with every kind of credentials, logouts and a protected route, on both
\* sessions, one request after the other.
MaxAuthRequests == 4

NextAuth ==
    \/ \E p \in Procs, s \in Sessions, cred \in Credentials :
          AllIdle /\ nreq < MaxAuthRequests /\ LoginStart(p, s, cred)
    \/ \E p \in Procs : LoginGetUser(p, TRUE)
    \/ \E p \in Procs : LoginCompare(p)
    \/ \E p \in Procs, ok \in BOOLEAN : LoginTouch(p, ok)
    \/ \E p \in Procs, s \in Sessions :
          AllIdle /\ nreq < MaxAuthRequests /\ LogoutStart(p, s)
    \/ \E p \in Procs, ok \in BOOLEAN : LogoutDestroy(p, ok)
    \/ \E p \in Procs, s \in Sessions :
          AllIdle /\ nreq < MaxAuthRequests /\ GetCurrentUserStart(p, s)
    \/ \E p \in Procs : GetCurrentUserGet(p, TRUE)

SpecAuth == Init /\ [][NextAuth]_vars

\* ------------------------------------------------------- owners of a row
\* The owner of a cart line: the user when user_id is set, else the guest session.
RowOwner(c) ==
    IF c.user_id # NULL THEN [user_id |-> c.user_id, session_id |-> NULL]
    ELSE [user_id |-> NULL, session_id |-> c.session_id]

\* The owner a request acts for (resolved when the handler starts).
ReqOwner(p) ==
    IF req[p].userId # NULL THEN [user_id |-> req[p].userId, session_id |-> NULL]
    ELSE [user_id |-> NULL, session_id |-> req[p].sid]

\* ------------------------------------------------------------- checkout
\* Request p is a createOrder whose cart query returned one line of 1 unit of
\* product pid and read stock_quantity = 1 for it.
TookLastUnit(p, pid) ==
    /\ req[p].op = "createOrder"
    /\ Len(req[p].cartItems) = 1
    /\ req[p].cartItems[1].product_id = pid
    /\ req[p].cartItems[1].quantity = 1
    /\ req[p].cartItems[1].stock_quantity = 1

\* C1: two createOrder requests of different owners, each for 1 unit of the same
\* product read with stock 1 (stock is never raised under SpecCheckout, so both
\* read it before either decremented it), never both end with success.
C1_NeverBothSucceed ==
    \A p1, p2 \in Procs, pid \in Products :
        (/\ p1 # p2
         /\ ReqOwner(p1) # ReqOwner(p2)
         /\ TookLastUnit(p1, pid)
         /\ TookLastUnit(p2, pid))
        => ~(req[p1].resp = "OrderPlaced" /\ req[p2].resp = "OrderPlaced")

\* C2: every product's stock_quantity is >= 0 in every reachable state.
C2_StockNeverNegative ==
    \A pid \in DOMAIN products : products[pid].stock_quantity >= 0

\* C3: once createOrder has answered with a store failure, no order row and no
\* order line written by that call is visible.
C3_FailedOrderLeavesNothing ==
    \A p \in Procs :
        (req[p].op = "createOrder" /\ req[p].pc = "idle" /\ req[p].resp = "StoreError")
        => /\ \A o \in orders : o.order_id # req[p].orderId
           /\ \A l \in order_items : l.order_id # req[p].orderId

\* ----------------------------------------------------------------- carts
RECURSIVE SumQuantity(_)
SumQuantity(rows) ==
    IF rows = {} THEN 0
    ELSE LET c == CHOOSE r \in rows : TRUE
         IN  c.quantity + SumQuantity(rows \ {c})

\* C4: when every request so far was an addToCart of 1 unit by the same guest for
\* the same product (under SpecAdd: all lines belong to that pair), the stock
\* covers them and all have been answered, the cart holds as many units as
\* there were requests.
C4_NoLostIncrement ==
    \A s \in Sessions, pid \in Products :
        (/\ AllIdle
         /\ products[pid].stock_quantity >= nreq
         /\ \A c \in cart_items :
                c.product_id = pid /\ c.user_id = NULL /\ c.session_id = s)
        => SumQuantity(cart_items) = nreq

\* C5: at most one cart line per (owner, product_id) pair.
C5_OneLinePerOwnerProduct ==
    \A c1, c2 \in cart_items :
        (RowOwner(c1) = RowOwner(c2) /\ c1.product_id = c2.product_id)
        => c1.cart_id = c2.cart_id

\* C6: once a login has answered with success, no cart line that existed when the
\* login was received is still owned by the guest session it came from.
C6_LoginMergesGuestCart ==
    \A p \in Procs :
        (req[p].op = "login" /\ req[p].pc = "idle" /\ req[p].resp = "LoginOk")
        => \A c \in cart_items :
              c.cart_id < req[p].mark => ~(c.user_id = NULL /\ c.session_id = req[p].sid)

\* ----------------------------------------------------------------- merge
\* login has answered after a call of mergeGuestCart
MergeDone(p) ==
    /\ req[p].op = "login"
    /\ req[p].pc = "idle"
    /\ req[p].resp = "LoginOk"
    /\ req[p].mergeSid # NULL

UserQuantity(rows, userId, pid) ==
    SumQuantity({c \in rows : c.user_id = userId /\ c.product_id = pid})

GuestQuantity(rows, sessionId, pid) ==
    SumQuantity({c \in rows :
                    c.user_id = NULL /\ c.session_id = sessionId /\ c.product_id = pid})

C9_MergeFailureNeverFailsLogin ==
    [][\A p \in Procs :
          (req[p].op = "login" /\ ~req[p].mergeError /\ req'[p].mergeError)
          => /\ req'[p].pc = "idle"
             /\ req'[p].resp = "LoginOk"
             /\ session[req[p].sid].userId = req[p].user
             /\ session'[req[p].sid].userId = req[p].user]_vars

C9_Witness ==
    \E p \in Procs :
        MergeDone(p) /\ req[p].mergeError /\ session[req[p].sid].userId = req[p].user

\* C10: when updateCartItem or removeCartItem looks up a cart_id whose line belongs
\* to another owner, the handler ends there with CartItemNotFound and has changed
\* no cart line.
C10_ForeignLineNotFound ==
    [][\A p \in Procs :
          (/\ req[p].pc \in {"upd_getItem", "rem_getItem"}
           /\ req'[p] # req[p]
           /\ \E c \in cart_items : c.cart_id = req[p].cart_id /\ RowOwner(c) # ReqOwner(p))
          => /\ req'[p].pc = "idle"
             /\ req'[p].resp = "CartItemNotFound"
             /\ cart_items' = cart_items]_vars

C10_Witness ==
    \E p \in Procs :
        /\ req[p].op \in {"updateCartItem", "removeCartItem"}
        /\ req[p].pc = "idle"
        /\ req[p].resp = "CartItemNotFound"
        /\ \E c \in cart_items : c.cart_id = req[p].cart_id /\ RowOwner(c) # ReqOwner(p)

\* ----------------------------------------------------------- createOrder
\* the products of the cart lines that ask for more than the stock
ShortProducts(cartItems) ==
    {cartItems[i].product_id :
        i \in {j \in 1..Len(cartItems) : cartItems[j].quantity > cartItems[j].stock_quantity}}

\* C11: when the cart that createOrder loads has a line with quantity above the
\* product's stock, the request ends there with InsufficientStock naming such a
\* product, and no order row, order line, stock or cart line has changed.
C11_ShortCartWritesNothing ==
    [][\A p \in Procs :
          (/\ req[p].pc = "ord_query"
           /\ req'[p] # req[p]
           /\ ShortProducts(CartQuery(req[p].userId, req[p].sid)) # {})
          => /\ req'[p].pc = "idle"
             /\ req'[p].resp = "InsufficientStock"
             /\ req'[p].product_id \in ShortProducts(CartQuery(req[p].userId, req[p].sid))
             /\ orders' = orders
             /\ order_items' = order_items
             /\ products' = products
             /\ cart_items' = cart_items]_vars

\* the offending line is the second of two, behind a line the stock covers
C11_Witness ==
    \E p \in Procs :
        /\ req[p].op = "createOrder"
        /\ req[p].pc = "idle"
        /\ req[p].resp = "InsufficientStock"
        /\ Len(req[p].cartItems) = 2
        /\ req[p].cartItems[1].quantity <= req[p].cartItems[1].stock_quantity
        /\ req[p].cartItems[2].quantity > req[p].cartItems[2].stock_quantity
        /\ orders = {}
        /\ order_items = {}

RECURSIVE SumStoredSubtotals(_)
SumStoredSubtotals(lines) ==
    IF lines = {} THEN 0
    ELSE LET l == CHOOSE x \in lines : TRUE
         IN  l.subtotal + SumStoredSubtotals(lines \ {l})

RECURSIVE QuantityOf(_, _, _)
\* the units of product pid in the first n lines of cartItems
QuantityOf(cartItems, n, pid) ==
    IF n = 0 THEN 0
    ELSE QuantityOf(cartItems, n - 1, pid)
         + (IF cartItems[n].product_id = pid THEN cartItems[n].quantity ELSE 0)

\* C12: after a successful createOrder (requests one after the other) there is one
\* order, Pending, with one line per cart line carrying the product's name,
\* unit_price = price - price * discount / 100 and subtotal = unit_price * quantity;
\* total_amount is the sum of the lines' subtotals; each product's stock went down
\* by the quantity bought; and the owner's cart is empty.  Stored amounts are in
\* cents, the computed price in hundredths of a cent.
C12_OrderMatchesCart ==
    \A p \in Procs :
        (req[p].op = "createOrder" /\ req[p].pc = "idle" /\ req[p].resp = "OrderPlaced")
        => LET cartItems == req[p].cartItems
               placed    == {o \in orders : o.order_id = req[p].orderId}
               lines     == {l \in order_items : l.order_id = req[p].orderId}
           IN  /\ Cardinality(placed) = 1
               /\ \A o \in placed :
                      /\ o.order_status = "Pending"
                      /\ o.total_amount = SumStoredSubtotals(lines)
               /\ Cardinality(lines) = Len(cartItems)
               /\ \A i \in 1..Len(cartItems) :
                      \E l \in lines :
                          /\ l.line = i
                          /\ l.product_id = cartItems[i].product_id
                          /\ l.product_name = cartItems[i].product_name
                          /\ l.quantity = cartItems[i].quantity
                          /\ l.unit_price * 100 = FinalPrice(cartItems[i])
                          /\ l.subtotal = l.unit_price * l.quantity
               /\ \A i \in 1..Len(cartItems) :
                      LET pid == cartItems[i].product_id
                      IN  products[pid].stock_quantity =
                              cartItems[i].stock_quantity
                              - QuantityOf(cartItems, Len(cartItems), pid)
               /\ OwnerRows(req[p].userId, req[p].sid) = {}

\* C13: no order line is ever written for a product that is inactive (under
\* SpecOrder no product changes its is_active).
C13_NoInactiveProductOrdered ==
    \A l \in order_items : products[l.product_id].is_active

\* C14: every cart line that createOrder's final DELETE removes is, with its
\* quantity at that moment, a line of the order that the request created.
C14_DeletedLinesAreOrdered ==
    [][\A p \in Procs :
          (req[p].pc = "ord_clearCart" /\ req'[p].pc = "idle" /\ req'[p].resp = "OrderPlaced")
          => \A c \in cart_items \ cart_items' :
                \E i \in 1..Len(req[p].cartItems), l \in order_items :
                    /\ req[p].cartItems[i].cart_id = c.cart_id
                    /\ l.order_id = req[p].orderId
                    /\ l.line = i
                    /\ l.product_id = c.product_id
                    /\ l.quantity = c.quantity]_vars

\* ------------------------------------------------------------- addToCart
\* the lines of rows that belong to the owner request p acts for, for product pid
LinesOf(rows, p, pid) ==
    {c \in rows : RowOwner(c) = ReqOwner(p) /\ c.product_id = pid}

\* C15: the step at which addToCart answers with success (requests one after the
\* other) leaves exactly one line for (owner, product), with the quantity asked for
\* when there was none before (added) and old + asked when there was one
\* (updated); the answer carries that line's cart_id and quantity.  And the step
\* at which getCart answers shows, for every active product, exactly the owner's
\* lines with their quantities.
C15_AddThenGetCartOneLine ==
    [][\A p \in Procs :
          /\ (/\ req[p].op = "addToCart"
              /\ req[p].pc \in {"add_update", "add_insert"}
              /\ req'[p].pc = "idle"
              /\ req'[p].resp \in {"added", "updated"})
             => LET old == LinesOf(cart_items, p, req[p].product_id)
                    new == LinesOf(cart_items', p, req[p].product_id)
                IN  /\ Cardinality(new) = 1
                    /\ (req'[p].resp = "added") <=> (old = {})
                    /\ \A c \in new :
                          /\ c.quantity = SumQuantity(old) + req[p].qty
                          /\ c.cart_id = req'[p].cart_id
                          /\ c.quantity = ReportedQuantity(req'[p])
          /\ (req[p].pc = "cart_query" /\ req'[p].pc = "idle" /\ req'[p].resp = "CartShown")
             => \A pid \in Products :
                   products[pid].is_active
                   => {[cart_id |-> i.cart_id, quantity |-> i.quantity] :
                          i \in {x \in req'[p].items : x.product_id = pid}}
                      = {[cart_id |-> c.cart_id, quantity |-> c.quantity] :
                          c \in LinesOf(cart_items, p, pid)}]_vars

\* getCart shows a line of 3 units: more than one request can put there
C15_Witness ==
    \E p \in Procs :
        /\ req[p].op = "getCart"
        /\ req[p].resp = "CartShown"
        /\ Cardinality(req[p].items) = 1
        /\ \E i \in req[p].items : i.quantity = MaxQty + 1

\* C16: when the owner's quantity of the product plus the quantity asked for is
\* above the product's stock_quantity, the lookup of the existing line ends the
\* request with InsufficientStock, reporting that stock_quantity, and no cart
\* line has changed.
C16_OverStockLeavesCart ==
    [][\A p \in Procs :
          (/\ req[p].pc = "add_getExisting"
           /\ req'[p] # req[p]
           /\ SumQuantity(LinesOf(cart_items, p, req[p].product_id)) + req[p].qty
                  > products[req[p].product_id].stock_quantity)
          => /\ req'[p].pc = "idle"
             /\ req'[p].resp = "InsufficientStock"
             /\ req'[p].available = products[req[p].product_id].stock_quantity
             /\ cart_items' = cart_items]_vars

\* refused on top of an existing line
C16_Witness ==
    \E p \in Procs :
        /\ req[p].op = "addToCart"
        /\ req[p].pc = "idle"
        /\ req[p].resp = "InsufficientStock"
        /\ req[p].available = products[req[p].product_id].stock_quantity
        /\ LinesOf(cart_items, p, req[p].product_id) # {}

\* C17: an addToCart whose body carries a quantity below 1 is never answered with
\* success (a line added or updated); its answer is InvalidQuantity.
C17_QuantityBelowOneRejected ==
    \A p \in Procs :
        (/\ req[p].op = "addToCart"
         /\ req[p].pc = "idle"
         /\ req[p].quantity.present
         /\ req[p].quantity.value < 1)
        => req[p].resp \notin {"added", "updated"}

C19_ExactlyOneOwnerKey ==
    \A c \in cart_items : (c.user_id = NULL) # (c.session_id = NULL)

C21_Step(exact) ==
    \A p \in Procs :
        /\ (req[p].pc = "upd_getProduct" /\ req'[p] # req[p]) =>
               IF req[p].qty > products[req[p].product_id].stock_quantity
               THEN /\ req'[p].pc = "idle" /\ req'[p].resp = "InsufficientStock"
                    /\ cart_items' = cart_items
               ELSE req'[p].pc = "upd_update" /\ cart_items' = cart_items
        /\ (req[p].pc = "upd_update" /\ req'[p] # req[p]) =>
               LET line == CHOOSE c \in cart_items : c.cart_id = req[p].cart_id
                   pr == products[line.product_id]
                   full == (pr.price * 100 - pr.price * pr.discount_percentage) * req[p].qty
               IN  /\ req'[p].pc = "idle" /\ req'[p].resp = "CartItemUpdated"
                   /\ cart_items' = (cart_items \ {line})
                                        \cup {[line EXCEPT !.quantity = req[p].qty]}
                   /\ IF exact THEN req'[p].subtotal * 100 = full
                      ELSE /\ req'[p].subtotal * 100 <= full + 50
                           /\ full + 50 < req'[p].subtotal * 100 + 100

\* C21: updateCartItem on an owned line with q >= 1 answers InsufficientStock and
\* keeps the line when q exceeds the stock read again, else sets the line to exactly
\* q, changes no other line and returns subtotal = discounted price * q.
C21_UpdateSetsQuantity == [][C21_Step(TRUE)]_vars

\* C21 as the code has it: the returned subtotal is discounted price * q rounded
\* half up to the cent.
C21_UpdateSetsQuantityRounded == [][C21_Step(FALSE)]_vars

\* an update answered with a subtotal that had a fraction of a cent to round
C21_Witness ==
    \E p \in Procs :
        /\ req[p].op = "updateCartItem" /\ req[p].pc = "idle"
        /\ req[p].resp = "CartItemUpdated"
        /\ \E c \in cart_items :
               /\ c.cart_id = req[p].cart_id /\ c.quantity = req[p].qty
               /\ products[c.product_id].discount_percentage > 0
               /\ req[p].subtotal * 100 #
                     (products[c.product_id].price * 100 - products[c.product_id].price
                        * products[c.product_id].discount_percentage) * c.quantity

\* ------------------------------------------------------------ validateCart
\* the lines of the owner a request acts for
LinesOfRequest(r) ==
    {c \in cart_items : IF r.userId # NULL THEN c.user_id = r.userId
                        ELSE r.sid # NULL /\ c.session_id = r.sid /\ c.user_id = NULL}

\* a line of an inactive product, or of more units than the product has
Offending(c) ==
    \/ ~products[c.product_id].is_active
    \/ c.quantity > products[c.product_id].stock_quantity

\* the quantity of the line with a cart_id
QuantityOfLine(id) == (CHOOSE c \in cart_items : c.cart_id = id).quantity

\* C22: validateCart answers valid = true with no issue exactly when every line of
\* the owner has an active product and a quantity within its stock; otherwise it
\* answers valid = false with exactly one issue (cart_id, product_id) per offending
\* line: unavailable for an inactive product, stock for an active one that is short.
C22_ValidateCartListsOffendingLines ==
    [][\A p \in Procs :
        (req'[p] # req[p] /\ req'[p].op = "validateCart" /\ req'[p].pc = "idle") =>
            LET bad == {c \in LinesOfRequest(req'[p]) : Offending(c)}
                issues == req'[p].issues
            IN  /\ req'[p].resp = "CartValidated"
                /\ req'[p].valid = (bad = {})
                /\ (bad = {}) = (issues = <<>>)
                /\ Len(issues) = Cardinality(bad)
                /\ \A c \in bad :
                       \E i \in 1..Len(issues) :
                           /\ issues[i].cart_id = c.cart_id
                           /\ issues[i].product_id = c.product_id
                           /\ issues[i].issue = IF products[c.product_id].is_active
                                                THEN "stock" ELSE "unavailable"
                           /\ \A j \in 1..Len(issues) :
                                  issues[j].cart_id = c.cart_id => j = i]_vars

\* a cart answered invalid with an issue of each kind
C22_Witness ==
    \E p \in Procs :
        /\ req[p].op = "validateCart" /\ req[p].pc = "idle"
        /\ req[p].resp = "CartValidated" /\ ~req[p].valid
        /\ \E i, j \in 1..Len(req[p].issues) :
               /\ req[p].issues[i].issue = "unavailable"
               /\ req[p].issues[j].issue = "stock"
               /\ products[req[p].issues[i].product_id].stock_quantity
                     < QuantityOfLine(req[p].issues[i].cart_id)

\* ----------------------------------------------------------------- getCart
RECURSIVE SumFullDiscounted(_)
\* the sum over shown lines of (price - price * discount / 100) * quantity, in
\* hundredths of a cent
SumFullDiscounted(items) ==
    IF items = {} THEN 0
    ELSE LET i == CHOOSE x \in items : TRUE
         IN  (i.price * 100 - i.price * i.discount_percentage) * i.quantity
                + SumFullDiscounted(items \ {i})

RECURSIVE SumFullPrice(_)
\* the sum over shown lines of price * quantity, in hundredths of a cent
SumFullPrice(items) ==
    IF items = {} THEN 0
    ELSE LET i == CHOOSE x \in items : TRUE
         IN  i.price * 100 * i.quantity + SumFullPrice(items \ {i})

\* half-up rounding of hundredths of a cent to cents
Round2(x) == (x + 50) \div 100

\* C23: the summary amounts of getCart are the sums of the lines' full-precision
\* values rounded half up to 2 decimals once: total_amount is
\* round2(sum of (price - price * discount / 100) * quantity), subtotal and
\* discount_amount likewise, not sums of values rounded per line.
C23_SummaryRoundedOnce ==
    \A p \in Procs :
        (req[p].op = "getCart" /\ req[p].pc = "idle" /\ req[p].resp = "CartShown") =>
            /\ req[p].summary.total_amount = Round2(SumFullDiscounted(req[p].items))
            /\ req[p].summary.subtotal = Round2(SumFullPrice(req[p].items))
            /\ req[p].summary.discount_amount =
                  Round2(SumFullPrice(req[p].items) - SumFullDiscounted(req[p].items))

\* ------------------------------------------------------------- order lines
\* C24: order lines are immutable: once written, no later operation (updateProduct,
\* updateProductPrice, deleteProduct, any cart operation, a later createOrder)
\* changes their product_name, quantity, unit_price or subtotal.
C24_OrderLinesImmutable ==
    [][\A l \in order_items :
          \E k \in order_items' :
              /\ k.order_id = l.order_id /\ k.line = l.line /\ k.product_id = l.product_id
              /\ k.product_name = l.product_name /\ k.quantity = l.quantity
              /\ k.unit_price = l.unit_price /\ k.subtotal = l.subtotal]_vars

\* an order line that kept the name and price its product had when it was bought,
\* after the product was renamed, repriced or taken off sale and another order
\* was placed
C24_Witness ==
    \E l \in order_items :
        /\ \/ products[l.product_id].product_name # l.product_name
           \/ products[l.product_id].price # 101 * l.product_id
           \/ ~products[l.product_id].is_active
        /\ \E k \in order_items : k.order_id # l.order_id

\* ------------------------------------------------------------- no identity
\* C25: for a caller with no identity (no user, no session) getCart answers success
\* with no items and an all-zero summary and getCartCount answers success with
\* count 0; neither reads nor writes a cart line.
C25_NoIdentityEmptyCart ==
    [][\A p \in Procs :
         (/\ req'[p] # req[p] /\ req[p].pc = "idle"
          /\ req'[p].op \in {"getCart", "getCartCount"}
          /\ req'[p].userId = NULL /\ req'[p].sid = NULL) =>
             /\ req'[p].pc = "idle"
             /\ cart_items' = cart_items
             /\ req'[p].op = "getCart" =>
                   /\ req'[p].resp = "CartShown" /\ req'[p].items = {}
                   /\ req'[p].summary = [total_items |-> 0, subtotal |-> 0,
                                         discount_amount |-> 0, total_amount |-> 0]
             /\ req'[p].op = "getCartCount" =>
                   req'[p].resp = "CountShown" /\ req'[p].count = 0]_vars

\* getCart answered for a caller without identity while the store holds cart lines
C25_Witness ==
    \E p \in Procs :
        /\ req[p].op = "getCart" /\ req[p].pc = "idle" /\ req[p].resp = "CartShown"
        /\ req[p].userId = NULL /\ req[p].sid = NULL
        /\ req[p].items = {}
        /\ cart_items # {}

\* C26: for every owner getCart returns all of the owner's lines, and getCartCount
\* and getCart's summary.total_items both are the sum of the quantities of all of
\* the owner's lines, lines of a deactivated product included.
C26_CountIsTotalItems ==
    [][\A p \in Procs :
         (/\ req'[p] # req[p] /\ req'[p].pc = "idle"
          /\ req'[p].resp \in {"CartShown", "CountShown"}) =>
             LET lines == LinesOfRequest(req'[p])
             IN  /\ req'[p].op = "getCart" =>
                       /\ {i.cart_id : i \in req'[p].items} = {c.cart_id : c \in lines}
                       /\ req'[p].summary.total_items = SumQuantity(lines)
                 /\ req'[p].op = "getCartCount" =>
                       req'[p].count = SumQuantity(lines)]_vars

\* ------------------------------------------------- createOrder validation
\* a step of request p writes to the store
WritesStore(p) ==
    /\ req'[p] # req[p]
    /\ <<orders, order_items, products, cart_items, nextOrderId>>'
          # <<orders, order_items, products, cart_items, nextOrderId>>

\* C27: createOrder writes nothing unless shipping_address, customer_email and
\* full_name are present and the cart is not empty: a request without them is
\* answered MissingShippingInfo, one on an empty cart EmptyCart, and orders, order
\* lines, stock and carts stay as they were.
C27_NoWriteWithoutShippingOrCart ==
    [][\A p \in Procs :
         /\ (req'[p] # req[p] /\ req[p].pc = "idle" /\ req'[p].op = "createOrder"
                /\ ~req'[p].shippingGiven) =>
               /\ req'[p].pc = "idle" /\ req'[p].resp = "MissingShippingInfo"
               /\ ~WritesStore(p)
         /\ (req'[p] # req[p] /\ req[p].pc = "ord_query"
                /\ LinesOfRequest(req[p]) = {}) =>
               /\ req'[p].pc = "idle" /\ req'[p].resp = "EmptyCart"
               /\ ~WritesStore(p)
         /\ (req[p].op = "createOrder" /\ req[p].pc # "idle" /\ WritesStore(p)) =>
               req[p].shippingGiven /\ Len(req[p].cartItems) > 0]_vars

\* a createOrder answered EmptyCart, and nothing ordered, while another owner
\* holds a line
C27_Witness ==
    \E p \in Procs :
        /\ req[p].op = "createOrder" /\ req[p].pc = "idle" /\ req[p].resp = "EmptyCart"
        /\ req[p].shippingGiven
        /\ orders = {} /\ order_items = {} /\ cart_items # {}

\* ---------------------------------------------------- merge conservation
\* the units of a product on the lines owned by the user or carrying the session id
MergeScopeQuantity(rows, userId, sessionId, pid) ==
    SumQuantity({c \in rows : /\ c.product_id = pid
                              /\ (c.user_id = userId \/ c.session_id = sessionId)})

CartAndOrderOps ==
    {"getCart", "addToCart", "updateCartItem", "removeCartItem", "clearCart",
     "getCartCount", "validateCart", "createOrder"}

\* C29: a cart or order operation issued for owner X (the user when the session has
\* a userId, else the guest session) reads, modifies, deletes and turns into order
\* lines only cart lines owned by X: a guest request, createOrder included, never
\* consumes or deletes a line whose user_id is set, and a user request never
\* touches a line of another user or of a guest.
C29_OwnerIsolation ==
    [][\A p \in Procs :
         (req'[p] # req[p] /\ req[p].pc # "idle" /\ req[p].op \in CartAndOrderOps) =>
            /\ \A c \in cart_items \ cart_items' : RowOwner(c) = ReqOwner(p)
            /\ \A c \in cart_items' \ cart_items : RowOwner(c) = ReqOwner(p)
            /\ \A i \in 1..Len(req'[p].cartItems) :
                  RowOwner(req'[p].cartItems[i]) = ReqOwner(p)
            /\ \A i \in req'[p].items :
                  \E c \in cart_items : c.cart_id = i.cart_id /\ RowOwner(c) = ReqOwner(p)
            /\ \A i \in 1..Len(req'[p].issues) :
                  \E c \in cart_items :
                      c.cart_id = req'[p].issues[i].cart_id /\ RowOwner(c) = ReqOwner(p)
            /\ req'[p].resp = "CountShown" =>
                  req'[p].count = SumQuantity({c \in cart_items : RowOwner(c) = ReqOwner(p)})]_vars

\* ------------------------------------------------------ session lifecycle
\* this step answers a login on session s with success
LoginSucceeds(s) ==
    \E p \in Procs :
        /\ req[p].op = "login" /\ req[p].sid = s /\ req[p].pc = "login_touch"
        /\ req'[p].pc # "login_touch" /\ req'[p].resp # "StoreError"

\* this step answers a logout on session s with success
LogoutSucceeds(s) ==
    \E p \in Procs :
        /\ req[p].op = "logout" /\ req[p].sid = s /\ req[p].pc = "logout_destroy"
        /\ req'[p].pc = "idle" /\ req'[p].resp = "LoggedOut"

====
